---------------------------- MODULE Spec2Model ----------------------------
(* A model of the HPMA115 serial driver (src/HPMA115.py): the frame codec   *)
(* (_send, _recv, _checksum), the sample classes and the public operations  *)
(* of class HPMA115, over a byte-stream transport with a read timeout.      *)
EXTENDS Integers, Sequences, FiniteSets, TLC

(***************************************************************************)
(* Bounds of the model.                                                    *)
(***************************************************************************)
\* the most unread input (bytes and timeout gaps) that further input is
\* appended to; a longer backlog is read down first
MaxStale == 2
\* the most consumer invocations of one autosample run
MaxSamples == 2
\* the most method calls made on one driver object
MaxCalls == 2

(***************************************************************************)
(* Bytes, the transport and Python's values.                               *)
(***************************************************************************)
Byte == 0..255

\* In the input stream: the point where a read gives up (pyserial returns
\* the bytes it has got so far once `timeout` seconds pass without the rest).
TIMEOUT == -1

\* Python's None, as the value of Response.data
None == << -2 >>

\* an attribute that was never assigned
Unset == -3

RECURSIVE sum(_)
sum(packet) == IF packet = << >> THEN 0 ELSE Head(packet) + sum(Tail(packet))

\* a slip in the complement: one's complement in place of two's
_checksum_ones_complement(packet) == (65535 - sum(packet)) % 256

_checksum(packet) == (65536 - sum(packet)) % 256

\* int.from_bytes(b, "big") and struct.unpack(">H", b)[0], for the one or
\* two bytes of a checksum; of the empty byte string it is 0
RECURSIVE from_bytes(_)
from_bytes(b) ==
    IF b = << >> THEN 0
    ELSE from_bytes(SubSeq(b, 1, Len(b) - 1)) * 256 + b[Len(b)]

\* int.from_bytes(b, "big") of a payload of any length. Python's integers
\* are unbounded: the value is kept as its digits in base 256, most
\* significant first and without leading zeros (0 is the empty sequence).
RECURSIVE big_from_bytes(_)
big_from_bytes(b) ==
    IF b = << >> THEN << >>
    ELSE IF Head(b) = 0 THEN big_from_bytes(Tail(b))
    ELSE b

\* the packet _send builds and writes
packet_of(command, data) ==
    LET p1 == << 104 >>
        p2 == IF data # None THEN Append(p1, Len(data) + 1) ELSE Append(p1, 1)
        p3 == Append(p2, command)
        p4 == IF data # None THEN p3 \o data ELSE p3
    IN  Append(p4, _checksum(p4))

\* ser.read(n) on the input `buf`: the next n bytes, or fewer when the
\* input ends or a timeout gap comes first (the gap is used up by the read
\* that waited through it).
ser_read(buf, n) ==
    LET m    == IF n < Len(buf) THEN n ELSE Len(buf)
        gaps == {i \in 1..m : buf[i] = TIMEOUT}
    IN  IF gaps = {} THEN [got |-> SubSeq(buf, 1, m), rest |-> SubSeq(buf, m + 1, Len(buf))]
        ELSE LET g == CHOOSE i \in gaps : \A j \in gaps : i <= j
             IN  [got |-> SubSeq(buf, 1, g - 1), rest |-> SubSeq(buf, g + 1, Len(buf))]

\* the entries of the log: the transport calls and the callback's, each
\* with the line of src/HPMA115.py that makes the call, the byte count asked
\* for and the bytes written or read
EvWrite(p)         == [ev |-> "write", line |-> 109, n |-> Len(p), bytes |-> p]
EvRead(line, n, b) == [ev |-> "read", line |-> line, n |-> n, bytes |-> b]
EvDiscard(line)    == [ev |-> "discard", line |-> line, n |-> 0, bytes |-> << >>]
EvCallback         == [ev |-> "callback", line |-> 207, n |-> 0, bytes |-> << >>]


(***************************************************************************)
(* Decoding a response: HPMA115._recv.                                     *)
(***************************************************************************)
\* what _recv hands back: a Response (kind DATA, POSACK or NEGACK) or the
\* exception it raised (any other kind), with the input left unread and the
\* transport calls it made
Outcome(k, d, rest, evs) == [kind |-> k, data |-> d, rest |-> rest, evs |-> evs]

IsResponse(k) == k \in {"DATA", "POSACK", "NEGACK"}

\* a slip in the chain: the second header byte of the acknowledgements and
\* of the streaming frame is not looked at
header_branch_first_byte(header) ==
    IF Len(header) = 0 THEN "IndexError"
    ELSE IF header[1] = 64 THEN "command"
    ELSE IF header[1] = 66 THEN "stream"
    ELSE IF header[1] = 165 THEN "posack"
    ELSE IF header[1] = 150 THEN "negack"
    ELSE "malformed"

\* the branch of _recv's if/elif chain the header takes; subscripting a
\* short header raises IndexError at the first test that reads the missing
\* byte
header_branch(header) ==
    IF Len(header) = 0 THEN "IndexError"
    ELSE IF header[1] = 64 THEN "command"
    ELSE IF header[1] = 66 /\ Len(header) < 2 THEN "IndexError"
    ELSE IF header[1] = 66 /\ header[2] = 77 THEN "stream"
    ELSE IF header[1] = 165 /\ Len(header) < 2 THEN "IndexError"
    ELSE IF header[1] = 165 /\ header[2] = 165 THEN "posack"
    ELSE IF header[1] = 150 /\ Len(header) < 2 THEN "IndexError"
    ELSE IF header[1] = 150 /\ header[2] = 150 THEN "negack"
    ELSE "malformed"

\* a slip in the 0x40 branch: the input discarded on a checksum failure,
\* as the else branch does
recv_command_resets(header, rest, e1) ==
    IF Len(header) < 2 THEN Outcome("IndexError", None, rest, e1)
    ELSE LET d   == ser_read(rest, header[2])
             c   == ser_read(d.rest, 1)
             cs  == from_bytes(c.got)
             evs == e1 \o << EvRead(114, header[2], d.got), EvRead(115, 1, c.got) >>
         IN  IF cs # _checksum(header \o d.got)
             THEN Outcome("ChecksumFailure", None, << >>, Append(evs, EvDiscard(137)))
             ELSE Outcome("DATA", SubSeq(d.got, 2, Len(d.got)), c.rest, evs)

\* a slip in the 0x40 branch: the payload returned with the echo byte
recv_command_keeps_echo(header, rest, e1) ==
    IF Len(header) < 2 THEN Outcome("IndexError", None, rest, e1)
    ELSE LET d   == ser_read(rest, header[2])
             c   == ser_read(d.rest, 1)
             cs  == from_bytes(c.got)
             evs == e1 \o << EvRead(114, header[2], d.got), EvRead(115, 1, c.got) >>
         IN  IF cs # _checksum(header \o d.got)
             THEN Outcome("ChecksumFailure", None, c.rest, evs)
             ELSE Outcome("DATA", d.got, c.rest, evs)

\* the branch for header 0x40: ser.read(header[1]), one checksum byte
recv_command(header, rest, e1) ==
    IF Len(header) < 2 THEN Outcome("IndexError", None, rest, e1)
    ELSE LET d   == ser_read(rest, header[2])
             c   == ser_read(d.rest, 1)
             cs  == from_bytes(c.got)
             evs == e1 \o << EvRead(114, header[2], d.got), EvRead(115, 1, c.got) >>
         IN  IF cs # _checksum(header \o d.got)
             THEN Outcome("ChecksumFailure", None, c.rest, evs)
             ELSE Outcome("DATA", SubSeq(d.got, 2, Len(d.got)), c.rest, evs)

\* a slip in the streaming branch: the sum taken modulo 256 as in the
\* command family, and only the checksum's low byte compared
recv_stream_mod256(header, rest, e1) ==
    LET d   == ser_read(rest, 28)
        c   == ser_read(d.rest, 2)
        evs == e1 \o << EvRead(122, 28, d.got), EvRead(123, 2, c.got) >>
    IN  IF Len(c.got) # 2 THEN Outcome("StructError", None, c.rest, evs)
        ELSE IF from_bytes(c.got) % 256 # sum(header \o d.got) % 256
        THEN Outcome("ChecksumFailure", None, c.rest, evs)
        ELSE Outcome("DATA", SubSeq(d.got, 3, Len(d.got)), c.rest, evs)

\* the branch for header 0x42 0x4D: 28 bytes, a big-endian 16-bit checksum
recv_stream(header, rest, e1) ==
    LET d   == ser_read(rest, 28)
        c   == ser_read(d.rest, 2)
        evs == e1 \o << EvRead(122, 28, d.got), EvRead(123, 2, c.got) >>
    IN  IF Len(c.got) # 2 THEN Outcome("StructError", None, c.rest, evs)
        ELSE IF from_bytes(c.got) # sum(header \o d.got) % 65536
        THEN Outcome("ChecksumFailure", None, c.rest, evs)
        ELSE Outcome("DATA", SubSeq(d.got, 3, Len(d.got)), c.rest, evs)

\* a slip in the else branch: the exception without the reset
recv_malformed_keeps_input(rest, e1) ==
    Outcome("SerialDataMalformed", None, rest, e1)

\* the else branch: reset_input_buffer(), then SerialDataMalformed
recv_malformed(rest, e1) ==
    Outcome("SerialDataMalformed", None, << >>, Append(e1, EvDiscard(137)))

_recv(buf) ==
    LET h      == ser_read(buf, 2)
        header == h.got
        e1     == << EvRead(112, 2, header) >>
        branch == header_branch(header)
    IN  CASE branch = "IndexError" -> Outcome("IndexError", None, h.rest, e1)
          [] branch = "command"    -> recv_command(header, h.rest, e1)
          [] branch = "stream"     -> recv_stream(header, h.rest, e1)
          [] branch = "posack"     -> Outcome("POSACK", None, h.rest, e1)
          [] branch = "negack"     -> Outcome("NEGACK", None, h.rest, e1)
          [] OTHER                 -> recv_malformed(h.rest, e1)

(***************************************************************************)
(* Samples: struct.unpack and the two sample classes.                      *)
(***************************************************************************)
\* struct.unpack(">H...H", data) with `count` fields: "TypeError" for None,
\* "StructError" for a buffer of the wrong size, else the fields
\* a slip in the format string: "<H" for ">H", the fields little-endian
RECURSIVE fields_of_little_endian(_)
fields_of_little_endian(data) ==
    IF data = << >> THEN << >>
    ELSE << data[2] * 256 + data[1] >>
         \o fields_of_little_endian(SubSeq(data, 3, Len(data)))

RECURSIVE fields_of(_)
fields_of(data) ==
    IF data = << >> THEN << >>
    ELSE << data[1] * 256 + data[2] >> \o fields_of(SubSeq(data, 3, Len(data)))

unpack_error(count, data) ==
    IF data = None THEN "TypeError"
    ELSE IF Len(data) # 2 * count THEN "StructError"
    ELSE "none"

NoSample == [cls |-> "None", PM1_0 |-> Unset, PM2_5 |-> Unset,
             PM4_0 |-> Unset, PM10 |-> Unset]

\* a slip in SampleC0: PM10 taken from the last field
SampleC0_reads_last(data) ==
    [cls |-> "SampleC0", PM1_0 |-> data[1], PM2_5 |-> data[2],
     PM4_0 |-> data[3], PM10 |-> data[Len(data)]]

SampleC0(data) ==
    [cls |-> "SampleC0", PM1_0 |-> data[1], PM2_5 |-> data[2],
     PM4_0 |-> data[3], PM10 |-> data[4]]

\* a slip in SampleS0: the 13-field shape read at the 2-field positions
SampleS0_same_positions(data) ==
    IF Len(data) \in {2, 13}
    THEN [cls |-> "SampleS0", PM1_0 |-> Unset, PM2_5 |-> data[1],
          PM4_0 |-> Unset, PM10 |-> data[2]]
    ELSE [cls |-> "SampleS0", PM1_0 |-> Unset, PM2_5 |-> Unset,
          PM4_0 |-> Unset, PM10 |-> Unset]

SampleS0(data) ==
    IF Len(data) = 2
    THEN [cls |-> "SampleS0", PM1_0 |-> Unset, PM2_5 |-> data[1],
          PM4_0 |-> Unset, PM10 |-> data[2]]
    ELSE IF Len(data) = 13
    THEN [cls |-> "SampleS0", PM1_0 |-> Unset, PM2_5 |-> data[2],
          PM4_0 |-> Unset, PM10 |-> data[3]]
    ELSE [cls |-> "SampleS0", PM1_0 |-> Unset, PM2_5 |-> Unset,
          PM4_0 |-> Unset, PM10 |-> Unset]

SampleCls(v, data) == IF v = "HPMA115C0" THEN SampleC0(data) ELSE SampleS0(data)

(***************************************************************************)
(* What the device may put on the line.                                    *)
(***************************************************************************)
\* a command-response data frame: 0x40, length, body, checksum
DataFrame(body) ==
    LET p == << 64, Len(body) >> \o body IN Append(p, _checksum(p))

\* a streaming frame: "BM", the 28-byte body (length echo 0x001C and 13
\* fields), and the 16-bit sum
StreamFrame(fields26) ==
    LET p  == << 66, 77, 0, 28 >> \o fields26
        cs == sum(p) % 65536
    IN  p \o << cs \div 256, cs % 256 >>

PosAck == << 165, 165 >>
NegAck == << 150, 150 >>

\* the frame with its last byte (a checksum byte) off by one
BadChecksum(f) == [f EXCEPT ![Len(f)] = (f[Len(f)] + 1) % 256]

\* the first k bytes of the frame, and then nothing within the timeout
Truncated(f, k) == SubSeq(f, 1, k) \o << TIMEOUT, TIMEOUT >>

CoeffReply   == DataFrame(<< 16, 100 >>)
SampleReply6 == DataFrame(<< 4, 0, 10, 0, 20, 0, 30, 0, 40, 0, 99, 0, 99 >>)
SampleReply2 == DataFrame(<< 4, 0, 55, 0, 77 >>)
Stream1 == StreamFrame(<< 0, 0, 0, 55, 0, 77, 0, 1, 0, 2, 0, 3, 0, 4, 0, 5,
                          0, 6, 0, 7, 0, 8, 0, 9, 0, 10 >>)
Stream2 == StreamFrame(<< 1, 44, 0, 8, 1, 0, 0, 0, 0, 0, 0, 0, 0, 0, 0, 0,
                          0, 0, 0, 0, 0, 0, 0, 0, 151, 0 >>)

ValidFrames == {PosAck, NegAck, CoeffReply, SampleReply6, SampleReply2,
                Stream1, Stream2}

DataFrames == {CoeffReply, SampleReply6, SampleReply2, Stream1, Stream2}

Corrupted == {BadChecksum(CoeffReply), BadChecksum(Stream1),
              << 0, 1 >>, << 66, 0 >>}

TimedOut == {<< TIMEOUT >>, << 64, TIMEOUT >>, << 7, TIMEOUT >>,
             Truncated(<< 64, 192 >>, 2),
             Truncated(CoeffReply, 3), Truncated(DataFrame(<< 16, 174 >>), 4),
             Truncated(Stream1, 30)}

\* two frames arriving before the driver reads again
Leaders   == {PosAck, BadChecksum(CoeffReply), Stream1, << 0, 1 >>}
Followers == {NegAck, CoeffReply}

Arrivals ==
    {<< >>} \cup ValidFrames \cup Corrupted \cup TimedOut
    \cup {a \o b : a \in Leaders, b \in Followers}

(***************************************************************************)
(* The driver's state.                                                     *)
(***************************************************************************)
VARIABLES
    variant,    \* the class constructed: "HPMA115C0" or "HPMA115S0"
    inbuf,      \* the transport's input: bytes received and not yet read
    pc,         \* "idle" between calls, "loop" inside autosample's while
    op,         \* the method called last (or running)
    arg,        \* its arguments, but for the callback
    seen,       \* the input that call had before it: inbuf and what arrived
    log,        \* the transport calls and callbacks of that call, in order
    samples,    \* autosample: the samples passed to the callback and its answers
    rsp,        \* the Response _recv returned last in that call, if any
    result,     \* how the call ended: what it returned or raised
    calls       \* the number of method calls made since construction

vars == << variant, inbuf, pc, op, arg, seen, log, samples, rsp, result, calls >>

Variants == {"HPMA115C0", "HPMA115S0"}

\* int: the integer returned (see big_from_bytes), None when there is none
Returned(i, s) == [kind |-> "returned", int |-> i, sample |-> s]
Raised(e)      == [kind |-> e, int |-> None, sample |-> NoSample]
Running        == [kind |-> "running", int |-> None, sample |-> NoSample]

NoResponse  == [state |-> "none", data |-> None]
Response(r) == IF IsResponse(r.kind) THEN [state |-> r.kind, data |-> r.data]
               ELSE NoResponse

\* a slip in __init__: the input discarded before the commands are written
init_discards_first ==
    << EvDiscard(95), EvWrite(packet_of(32, None)), EvWrite(packet_of(2, None)) >>

\* the transport calls of HPMA115.__init__, in order: _send(0x20),
\* _send(0x02), and after the delay reset_input_buffer()
__init__ ==
    << EvWrite(packet_of(32, None)), EvWrite(packet_of(2, None)), EvDiscard(95) >>

\* HPMA115.__init__: two commands, the settling delay, the input discarded
Init ==
    /\ variant \in Variants
    /\ inbuf = << >>
    /\ pc = "idle"
    /\ op = "__init__"
    /\ arg = << >>
    /\ seen = << >>
    /\ log = __init__
    /\ samples = << >>
    /\ rsp = NoResponse
    /\ result = Returned(None, NoSample)
    /\ calls = 0

Arrives(arrival) ==
    /\ arrival \in Arrivals
    /\ arrival = << >> \/ Len(inbuf) <= MaxStale

\* a slip in the callers' test: NEGACK passes for success
RaisedBy_ignores_negack(r) ==
    IF IsResponse(r.kind) THEN "none" ELSE r.kind

\* a slip in the callers' test: anything but POSACK taken for a failure
RaisedBy_requires_posack(r) ==
    IF r.kind = "POSACK" THEN "none"
    ELSE IF IsResponse(r.kind) THEN "CommandFailure"
    ELSE r.kind

\* _send(command, data), then _recv() on the input with what arrived, and
\* the test every caller makes: NEGACK raises CommandFailure
RaisedBy(r) ==
    IF r.kind = "NEGACK" THEN "CommandFailure"
    ELSE IF IsResponse(r.kind) THEN "none"
    ELSE r.kind

\* a slip in a method: the response read before the command is written
send_recv_reads_first(command, data, r) ==
    r.evs \o << EvWrite(packet_of(command, data)) >>

\* the transport calls of a method's exchange: self._send(command, data)
\* and then rsp = self._recv()
send_recv(command, data, r) ==
    << EvWrite(packet_of(command, data)) >> \o r.evs

\* a method may be called: no call is running, and the model's bound
Callable == pc = "idle" /\ calls < MaxCalls

\* the methods that return nothing: stop_measurement, start_measurement,
\* set_cust_adj_coeff after its range check
Command(name, command, data) ==
    \E arrival \in Arrivals :
        /\ Arrives(arrival)
        /\ \E r \in {_recv(inbuf \o arrival)} :
               /\ inbuf' = r.rest
               /\ rsp' = Response(r)
               /\ log' = send_recv(command, data, r)
               /\ result' = IF RaisedBy(r) # "none" THEN Raised(RaisedBy(r))
                            ELSE Returned(None, NoSample)
        /\ seen' = inbuf \o arrival
        /\ op' = name
        /\ arg' = IF data = None THEN << >> ELSE data
        /\ pc' = "idle"
        /\ samples' = << >>
        /\ UNCHANGED variant

stop_measurement == Callable /\ calls' = calls + 1 /\ Command("stop_measurement", 2, None)

start_measurement == Callable /\ calls' = calls + 1 /\ Command("start_measurement", 1, None)

Coeffs == {29, 30, 200, 201}

\* a slip in the range check: the bounds themselves refused
coeff_out_of_range_strict(coeff) == coeff <= 30 \/ coeff >= 200

coeff_out_of_range(coeff) == coeff < 30 \/ coeff > 200

set_cust_adj_coeff ==
    /\ Callable
    /\ calls' = calls + 1
    /\ \E coeff \in Coeffs :
        IF coeff_out_of_range(coeff)
        THEN /\ result' = Raised("ValueError")
             /\ rsp' = NoResponse
             /\ log' = << >>
             /\ seen' = inbuf
             /\ op' = "set_cust_adj_coeff"
             /\ arg' = << coeff >>
             /\ samples' = << >>
             /\ UNCHANGED << variant, inbuf, pc >>
        ELSE Command("set_cust_adj_coeff", 8, << coeff >>)

sample ==
    /\ Callable
    /\ calls' = calls + 1
    /\ \E arrival \in Arrivals :
        /\ Arrives(arrival)
        /\ \E r \in {_recv(inbuf \o arrival)} :
               /\ inbuf' = r.rest
               /\ rsp' = Response(r)
               /\ log' = send_recv(4, None, r)
               /\ result' =
                    IF RaisedBy(r) # "none" THEN Raised(RaisedBy(r))
                    ELSE IF unpack_error(6, r.data) # "none"
                    THEN Raised(unpack_error(6, r.data))
                    ELSE Returned(None, SampleCls(variant, fields_of(r.data)))
        /\ seen' = inbuf \o arrival
    /\ op' = "sample"
    /\ arg' = << >>
    /\ samples' = << >>
    /\ UNCHANGED << variant, pc >>

read_cust_adj_coeff ==
    /\ Callable
    /\ calls' = calls + 1
    /\ \E arrival \in Arrivals :
        /\ Arrives(arrival)
        /\ \E r \in {_recv(inbuf \o arrival)} :
               /\ inbuf' = r.rest
               /\ rsp' = Response(r)
               /\ log' = send_recv(16, None, r)
               /\ result' =
                    IF RaisedBy(r) # "none" THEN Raised(RaisedBy(r))
                    ELSE IF r.data = None THEN Raised("TypeError")
                    ELSE Returned(big_from_bytes(r.data), NoSample)
        /\ seen' = inbuf \o arrival
    /\ op' = "read_cust_adj_coeff"
    /\ arg' = << >>
    /\ samples' = << >>
    /\ UNCHANGED << variant, pc >>

\* autosample up to its while loop: the command and the first response
autosample ==
    /\ Callable
    /\ calls' = calls + 1
    /\ \E arrival \in Arrivals :
        /\ Arrives(arrival)
        /\ \E r \in {_recv(inbuf \o arrival)} :
               /\ inbuf' = r.rest
               /\ rsp' = Response(r)
               /\ log' = send_recv(64, None, r)
               /\ result' = IF RaisedBy(r) # "none" THEN Raised(RaisedBy(r))
                            ELSE Running
               /\ pc' = IF RaisedBy(r) # "none" THEN "idle" ELSE "loop"
        /\ seen' = inbuf \o arrival
    /\ op' = "autosample"
    /\ arg' = << >>
    /\ samples' = << >>
    /\ UNCHANGED variant

\* what a turn of the while loop raises: what _recv raised, CommandFailure
\* for NEGACK, or what unpacking the 13 fields raises
loop_error(r) ==
    IF RaisedBy(r) # "none" THEN RaisedBy(r) ELSE unpack_error(13, r.data)

\* slips in the loop's exits: the callback's answer read the wrong way round;
\* NEGACK taken for a request to stop; a checksum failure skipped over
loop_exit_inverted(r, answer) ==
    IF loop_error(r) # "none" THEN "raise"
    ELSE IF answer THEN "break"
    ELSE "continue"

loop_exit_negack_breaks(r, answer) ==
    IF r.kind = "NEGACK" THEN "break"
    ELSE IF loop_error(r) # "none" THEN "raise"
    ELSE IF ~answer THEN "break"
    ELSE "continue"

loop_exit_skips_bad_frames(r, answer) ==
    IF r.kind = "ChecksumFailure" THEN "continue"
    ELSE IF loop_error(r) # "none" THEN "raise"
    ELSE IF ~answer THEN "break"
    ELSE "continue"

\* a slip in the disable sequence: the input discarded before the command
disable_discards_first == << EvDiscard(210), EvWrite(packet_of(32, None)) >>

\* the transport calls after a false answer of the callback: _send(0x20)
\* and after the delay reset_input_buffer()
disable == << EvWrite(packet_of(32, None)), EvDiscard(210) >>

\* how a turn of the while loop ends: an exception leaves the method, a
\* false answer of the callback runs the disable sequence and breaks
loop_exit(r, answer) ==
    IF loop_error(r) # "none" THEN "raise"
    ELSE IF ~answer THEN "break"
    ELSE "continue"

\* one turn of autosample's while loop: a response, the sample, the
\* callback, and on a false answer the disable command, the delay, the input
\* discarded and the break
autosample_loop ==
    /\ pc = "loop"
    /\ Len(samples) < MaxSamples
    /\ \E arrival \in Arrivals, answer \in BOOLEAN :
        /\ Arrives(arrival)
        /\ \E r \in {_recv(inbuf \o arrival)} :
           LET called == loop_error(r) = "none"
               exit   == loop_exit(r, answer)
               evs    == IF called THEN Append(r.evs, EvCallback) ELSE r.evs
           IN  /\ rsp' = Response(r)
               \* when the callback is not reached its answer plays no part
               /\ called \/ answer
               /\ samples' =
                    IF called
                    THEN Append(samples,
                                [sample |-> SampleCls(variant, fields_of(r.data)),
                                 answer |-> answer])
                    ELSE samples
               /\ CASE exit = "raise" ->
                        /\ inbuf' = r.rest
                        /\ log' = log \o evs
                        /\ result' = Raised(loop_error(r))
                        /\ pc' = "idle"
                    [] exit = "break" ->
                        /\ inbuf' = << >>
                        /\ log' = log \o evs \o disable
                        /\ result' = Returned(None, NoSample)
                        /\ pc' = "idle"
                    [] OTHER ->
                        /\ inbuf' = r.rest
                        /\ log' = log \o evs
                        /\ result' = Running
                        /\ pc' = "loop"
        /\ seen' = seen \o arrival
    /\ UNCHANGED << variant, op, arg, calls >>

Next ==
    \/ stop_measurement
    \/ start_measurement
    \/ sample
    \/ set_cust_adj_coeff
    \/ read_cust_adj_coeff
    \/ autosample
    \/ autosample_loop

Spec == Init /\ [][Next]_vars

(***************************************************************************)
(* The codec on its own: _recv applied to an input.                        *)
(***************************************************************************)
\* a frame with the byte at position i replaced by v
Flip(f, i, v) == [f EXCEPT ![i] = v]

FlipFrames == DataFrames \cup {DataFrame(<< >>), DataFrame(<< 16, 174 >>)}

\* the inputs of the codec: every two-byte header, and every frame of
\* FlipFrames with one byte given any value (its own included)
DecodeInput(buf) ==
    \/ \E a \in Byte, b \in Byte : buf = << a, b >>
    \/ \E f \in FlipFrames : \E i \in 1..Len(f), v \in Byte : buf = Flip(f, i, v)

InitDecode ==
    /\ variant = "HPMA115C0"
    /\ DecodeInput(inbuf)
    /\ pc = "decode"
    /\ op = "_recv"
    /\ arg = << >>
    /\ seen = inbuf
    /\ log = << >>
    /\ samples = << >>
    /\ rsp = NoResponse
    /\ result = Running
    /\ calls = 0

decode ==
    /\ pc = "decode"
    /\ LET r == _recv(inbuf)
       IN  /\ inbuf' = r.rest
           /\ rsp' = Response(r)
           /\ log' = r.evs
           /\ result' = IF IsResponse(r.kind) THEN Returned(None, NoSample)
                        ELSE Raised(r.kind)
    /\ pc' = "idle"
    /\ UNCHANGED << variant, op, arg, seen, samples, calls >>

NextDecode == decode

SpecDecode == InitDecode /\ [][NextDecode]_vars

(***************************************************************************)
(* The sample classes on their own: SampleCls applied to a tuple.          *)
(***************************************************************************)
\* 16-bit field values: both ends of the range, and both byte positions
Words == {0, 55, 256, 65535}

\* the tuples struct.unpack hands to a sample class: two fields, six
\* fields, and thirteen fields (the fields after position 3 all alike)
SampleInput(data) ==
    \/ \E a \in Words, b \in Words : data = << a, b >>
    \/ \E a \in Words, b \in Words, c \in Words, d \in Words,
          e \in Words, f \in Words : data = << a, b, c, d, e, f >>
    \/ \E x \in Words, a \in Words, b \in Words, y \in Words :
          data = << x, a, b >> \o [i \in 1..10 |-> y]

InitSample ==
    /\ variant \in Variants
    /\ SampleInput(arg)
    /\ inbuf = << >>
    /\ pc = "construct"
    /\ op = "SampleCls"
    /\ seen = << >>
    /\ log = << >>
    /\ samples = << >>
    /\ rsp = NoResponse
    /\ result = Running
    /\ calls = 0

\* self.SampleCls(data): SampleC0 subscripts data[0..3] and raises
\* IndexError on a shorter tuple, SampleS0 subscripts only after its test
\* of len(data)
construct ==
    /\ pc = "construct"
    /\ result' = IF variant = "HPMA115C0" /\ Len(arg) < 4
                 THEN Raised("IndexError")
                 ELSE Returned(None, SampleCls(variant, arg))
    /\ pc' = "idle"
    /\ UNCHANGED << variant, inbuf, op, arg, seen, log, samples, rsp, calls >>

NextSample == construct

SpecSample == InitSample /\ [][NextSample]_vars

(***************************************************************************)
(* Properties.                                                             *)
(***************************************************************************)
\* the frame of command 0x20 on the wire
DisableFrame == << 104, 1, 32, 119 >>

WritesOf(frame) == {i \in DOMAIN log : log[i].ev = "write" /\ log[i].bytes = frame}
Events(kind)    == {i \in DOMAIN log : log[i].ev = kind}
\* the reads of a response's two header bytes
HeaderReads     == {i \in DOMAIN log : log[i].ev = "read" /\ log[i].line = 112}
\* in autosample the first response is read at log[2]: later ones are the loop's
LoopHeaderReads == {i \in HeaderReads : op = "autosample" /\ i > 2}
AllAnswersTrue  == \A i \in DOMAIN samples : samples[i].answer

\* C1: in autosample a false answer of the callback, at whichever call, is
\* its last call: the method returns, having written exactly one 0x20 frame;
\* while every answer is true no 0x20 frame is written and the method does
\* not return, and after a sample answered true the loop is still running.
C1_StreamingTermination ==
    op = "autosample" =>
        /\ \A i \in DOMAIN samples : ~samples[i].answer => i = Len(samples)
        /\ (samples # << >> /\ ~samples[Len(samples)].answer) =>
              /\ pc = "idle"
              /\ result.kind = "returned"
              /\ Cardinality(WritesOf(DisableFrame)) = 1
        /\ AllAnswersTrue =>
              /\ WritesOf(DisableFrame) = {}
              /\ result.kind # "returned"
        /\ (AllAnswersTrue /\ log[Len(log)].ev = "callback") =>
              /\ pc = "loop"
              /\ result.kind = "running"

\* the callback answers true, then false: the second call is the last
C1_Witness ==
    /\ op = "autosample"
    /\ Len(samples) = 2
    /\ samples[1].answer /\ ~samples[2].answer
    /\ result.kind = "returned"
    /\ Cardinality(WritesOf(DisableFrame)) = 1

NegAckInLoop == \E i \in LoopHeaderReads : log[i].bytes = << 150, 150 >>

DecodeFailedInLoop ==
    /\ LoopHeaderReads # {}
    /\ rsp.state = "none"

\* C3: when _recv raises inside the loop the exception leaves autosample:
\* the callback is not called for that frame and nothing is written after
\* it; a frame read whole with a wrong checksum gives ChecksumFailure, an
\* unknown header SerialDataMalformed.
C3_DecodeFailurePropagates ==
    DecodeFailedInLoop =>
        /\ pc = "idle"
        /\ result.kind \in {"ChecksumFailure", "SerialDataMalformed",
                            "IndexError", "StructError"}
        /\ WritesOf(DisableFrame) = {}
        /\ log[Len(log)].ev \in {"read", "discard"}
        /\ Cardinality(Events("callback")) = Len(samples)
        /\ AllAnswersTrue
        /\ log[Len(log)].ev = "discard" <=> result.kind = "SerialDataMalformed"
        /\ (/\ log[Len(log)].line \in {115, 123}
            /\ Len(log[Len(log)].bytes) = log[Len(log)].n
            /\ Len(log[Len(log) - 1].bytes) = log[Len(log) - 1].n)
              => result.kind = "ChecksumFailure"

\* a streaming frame with a wrong checksum after one sample was delivered
C3_Witness ==
    /\ DecodeFailedInLoop
    /\ Len(samples) = 1
    /\ result.kind = "ChecksumFailure"
    /\ log[Len(log)].line = 123

UnknownHeader(h) ==
    /\ Len(h) = 2
    /\ h[1] # 64
    /\ h \notin {<< 66, 77 >>, << 165, 165 >>, << 150, 150 >>}

\* C4: a two-byte header of no known pattern ends the method: the input is
\* discarded, once, right after the header was read, SerialDataMalformed is
\* raised to the caller, and no read or write follows.
C4_MalformedRecovery ==
    \A i \in HeaderReads :
        UnknownHeader(log[i].bytes) =>
            /\ Len(log) = i + 1
            /\ log[i + 1] = EvDiscard(137)
            /\ Cardinality(Events("discard")) = 1
            /\ result = Raised("SerialDataMalformed")
            /\ pc = "idle"
            /\ inbuf = << >>

\* an unknown header with a frame behind it, which the discard drops
C4_Witness ==
    /\ \E i \in HeaderReads : UnknownHeader(log[i].bytes)
    /\ Len(seen) > 2
    /\ inbuf = << >>
    /\ result.kind = "SerialDataMalformed"

\* C5: set_cust_adj_coeff with a coefficient below 30 or above 200 raises
\* ValueError without a write or a read; with one from 30 to 200 its one
\* write is the 0x08 frame carrying the coefficient, written before the
\* response is read, and on a PositiveAck it returns.
C5_CoefficientBounds ==
    op = "set_cust_adj_coeff" =>
        LET c == arg[1]
        IN  IF c < 30 \/ c > 200
            THEN /\ result = Raised("ValueError")
                 /\ log = << >>
                 /\ inbuf = seen
            ELSE /\ result.kind # "ValueError"
                 /\ log[1] = EvWrite(<< 104, 2, 8, c, (256 - ((114 + c) % 256)) % 256 >>)
                 /\ Events("write") = {1}
                 /\ rsp.state = "POSACK" => result = Returned(None, NoSample)

\* the upper bound 200 is accepted and acknowledged
C5_Witness ==
    /\ op = "set_cust_adj_coeff"
    /\ arg = << 200 >>
    /\ rsp.state = "POSACK"
    /\ result.kind = "returned"

\* C6: when the response to a method's command is a NegativeAck the method
\* raises CommandFailure: it returns no value, the callback is not called
\* and nothing more is written or read.
C6_NegAckIsCommandFailure ==
    (/\ op \in {"start_measurement", "stop_measurement", "sample",
                "set_cust_adj_coeff", "read_cust_adj_coeff", "autosample"}
     /\ Len(log) >= 2
     /\ log[2] = EvRead(112, 2, << 150, 150 >>))
        => /\ result = Raised("CommandFailure")
           /\ pc = "idle"
           /\ samples = << >>
           /\ Len(log) = 2
           /\ log[1].ev = "write"

\* autosample refused by the device: the loop is not entered
C6_Witness ==
    /\ op = "autosample"
    /\ Len(log) = 2
    /\ rsp.state = "NEGACK"
    /\ result.kind = "CommandFailure"

\* a frame of the command family as the CommandFrame invariant has it
WellFormedCommandFrame(f) ==
    /\ Len(f) >= 4
    /\ \A i \in DOMAIN f : f[i] \in Byte
    /\ f[1] = 104
    /\ f[2] = (Len(f) - 4) + 1
    /\ f[3] \in {1, 2, 4, 8, 16, 32, 64}
    /\ f[Len(f)] = (65536 - sum(SubSeq(f, 1, Len(f) - 1))) % 256
    /\ sum(f) % 256 = 0

\* C9: every frame written to the transport is a well-formed CommandFrame.
C9_WrittenFramesWellFormed ==
    \A i \in Events("write") : WellFormedCommandFrame(log[i].bytes)

\* a frame with a payload was written, after an earlier call
C9_Witness ==
    /\ calls = 2
    /\ op = "set_cust_adj_coeff"
    /\ log # << >>
    /\ log[1].bytes = << 104, 2, 8, 200, 198 >>

\* C10 as stated: a read that returns fewer bytes than asked for makes the
\* method fail; no Response and no value comes of the short data.
C10_ShortReadFails ==
    \A i \in Events("read") :
        Len(log[i].bytes) < log[i].n =>
            /\ result.kind \notin {"returned", "running"}
            /\ rsp.state = "none"

\* _recv was applied to the input `seen`
Decoded == op = "_recv" /\ pc = "idle"

\* the input is the frame f with the byte at position i, and only that
\* byte, changed
FlippedAt(f, i) ==
    /\ Len(seen) = Len(f)
    /\ seen[i] # f[i]
    /\ \A j \in 1..Len(f) : j # i => seen[j] = f[j]

\* C7 as stated: a correctly framed data frame of either family with any one
\* byte changed, header bytes included, makes _recv raise ChecksumFailure.
C7_AnyFlipIsChecksumFailure ==
    Decoded =>
        \A f \in FlipFrames : \A i \in 1..Len(f) :
            FlippedAt(f, i) => result = Raised("ChecksumFailure")

\* C7 amended: a correctly framed data frame of either family, delivered
\* whole, with one byte after the two header bytes changed (a body byte or
\* a checksum byte) makes _recv raise ChecksumFailure, no Response returned.
C7_BodyFlipIsChecksumFailure ==
    Decoded =>
        \A f \in FlipFrames : \A i \in 3..Len(f) :
            FlippedAt(f, i) =>
                /\ result = Raised("ChecksumFailure")
                /\ rsp = NoResponse

\* a streaming frame whose checksum's high byte was changed
C7_Witness ==
    /\ Decoded
    /\ FlippedAt(Stream1, 31)
    /\ result.kind = "ChecksumFailure"

\* C8: the two header bytes decide the branch _recv takes, and it takes
\* exactly one: positive ack for A5 A5, negative ack for 96 96, the command
\* family for 40 and any length byte, the streaming family for 42 4D, and
\* malformed (the input discarded, SerialDataMalformed) for everything else.
C8_HeaderClassification ==
    Decoded =>
        LET h     == SubSeq(seen, 1, 2)
            isPos == rsp.state = "POSACK" /\ Len(log) = 1
            isNeg == rsp.state = "NEGACK" /\ Len(log) = 1
            isCmd == Len(log) = 3 /\ log[2].line = 114 /\ log[2].n = h[2]
            isStr == Len(log) = 3 /\ log[2].line = 122
            isMal == /\ result = Raised("SerialDataMalformed")
                     /\ log = << EvRead(112, 2, h), EvDiscard(137) >>
            N(b)  == IF b THEN 1 ELSE 0
        IN  /\ isPos <=> h = << 165, 165 >>
            /\ isNeg <=> h = << 150, 150 >>
            /\ isCmd <=> h[1] = 64
            /\ isStr <=> h = << 66, 77 >>
            /\ isMal <=> (/\ h[1] # 64
                          /\ h \notin {<< 165, 165 >>, << 150, 150 >>, << 66, 77 >>})
            /\ N(isPos) + N(isNeg) + N(isCmd) + N(isStr) + N(isMal) = 1

\* a header that shares its first byte with the streaming family is malformed
C8_Witness ==
    /\ Decoded
    /\ seen = << 66, 78 >>
    /\ result.kind = "SerialDataMalformed"
    /\ Events("discard") # {}

\* the k-th big-endian 16-bit field of a payload, k counted from 0
U16(data, k) == data[2 * k + 1] * 256 + data[2 * k + 2]

\* C11 (as the specification states it): sample() answered by a Data
\* response to 0x04, of two fields or of six, returns on the Standard
\* variant a SampleS0 whose PM2_5 and PM10 are the payload's fields 0 and 1
\* (the two-field mapping), and on the Compact variant, for six fields, a
\* SampleC0 built from fields 0 to 3
C11_SampleReturnsVariantSample ==
    (op = "sample" /\ rsp.state = "DATA") =>
        /\ (variant = "HPMA115S0" /\ Len(rsp.data) \in {4, 12}) =>
               /\ result.kind = "returned"
               /\ result.sample.cls = "SampleS0"
               /\ result.sample.PM2_5 = U16(rsp.data, 0)
               /\ result.sample.PM10 = U16(rsp.data, 1)
        /\ (variant = "HPMA115C0" /\ Len(rsp.data) = 12) =>
               /\ result.kind = "returned"
               /\ result.sample.cls = "SampleC0"
               /\ result.sample.PM1_0 = U16(rsp.data, 0)
               /\ result.sample.PM2_5 = U16(rsp.data, 1)
               /\ result.sample.PM4_0 = U16(rsp.data, 2)
               /\ result.sample.PM10 = U16(rsp.data, 3)

Constructed == op = "SampleCls" /\ pc = "idle"

\* C12: a SampleS0 built from two fields [a, b] has PM2_5 = a and PM10 = b;
\* built from thirteen fields it has PM2_5 and PM10 from positions 1 and 2
\* (counted from 0), whatever the other positions hold; it has no PM1_0 and
\* no PM4_0
C12_StandardSampleDualMapping ==
    (Constructed /\ variant = "HPMA115S0" /\ Len(arg) \in {2, 13}) =>
        /\ result.kind = "returned"
        /\ result.sample.cls = "SampleS0"
        /\ result.sample.PM1_0 = Unset
        /\ result.sample.PM4_0 = Unset
        /\ Len(arg) = 2 =>
               result.sample.PM2_5 = arg[1] /\ result.sample.PM10 = arg[2]
        /\ Len(arg) = 13 =>
               result.sample.PM2_5 = arg[2] /\ result.sample.PM10 = arg[3]

\* a thirteen-field tuple whose positions 0, 1, 2 and the rest all differ
C12_Witness ==
    /\ Constructed
    /\ variant = "HPMA115S0"
    /\ arg = << 0, 65535, 256 >> \o [i \in 1..10 |-> 55]
    /\ result.sample.PM2_5 = 65535
    /\ result.sample.PM10 = 256

\* C13: a SampleC0 built from six fields [f0 .. f5] has PM1_0 = f0,
\* PM2_5 = f1, PM4_0 = f2 and PM10 = f3, for every value of f4 and f5
C13_CompactSampleOfSixFields ==
    (Constructed /\ variant = "HPMA115C0" /\ Len(arg) = 6) =>
        /\ result.kind = "returned"
        /\ result.sample = [cls |-> "SampleC0", PM1_0 |-> arg[1],
                            PM2_5 |-> arg[2], PM4_0 |-> arg[3], PM10 |-> arg[4]]

\* six fields with f4 and f5 different from f0 .. f3
C13_Witness ==
    /\ Constructed
    /\ variant = "HPMA115C0"
    /\ arg = << 0, 55, 256, 65535, 0, 55 >>
    /\ result.sample.PM10 = 65535
    /\ result.sample.PM1_0 = 0

\* C14: constructing a driver makes exactly three transport calls, in this
\* order: the frame of command 0x20 written, the frame of command 0x02
\* written, the input discarded; nothing is read, and no input is left
C14_InitOrder ==
    op = "__init__" =>
        /\ Len(log) = 3
        /\ log[1].ev = "write" /\ log[1].bytes = DisableFrame
        /\ log[2].ev = "write" /\ log[2].bytes = << 104, 1, 2, 149 >>
        /\ log[3].ev = "discard"
        /\ Events("read") = {}
        /\ inbuf = << >>

\* the driver just constructed, before any method is called
C14_Witness ==
    /\ op = "__init__"
    /\ calls = 0
    /\ Events("write") = {1, 2}
    /\ Events("discard") = {3}

\* the methods of one request and one response, and their command codes
ExchangeOps == {"stop_measurement", "start_measurement", "sample",
                "set_cust_adj_coeff", "read_cust_adj_coeff"}

CommandCode(name) ==
    CASE name = "start_measurement"   -> 1
      [] name = "stop_measurement"    -> 2
      [] name = "sample"              -> 4
      [] name = "set_cust_adj_coeff"  -> 8
      [] name = "read_cust_adj_coeff" -> 16

\* C15: a request/response method (set_cust_adj_coeff with a coefficient in
\* range) writes exactly one frame, that of its own command, as its first
\* transport call, and then decodes exactly one response: one read of a
\* header, after the write, and no second write
C15_OneWriteThenOneDecode ==
    (/\ op \in ExchangeOps
     /\ op = "set_cust_adj_coeff" => arg[1] \in 30..200) =>
        /\ Len(log) >= 2
        /\ Events("write") = {1}
        /\ log[1].bytes[1] = 104
        /\ log[1].bytes[3] = CommandCode(op)
        /\ HeaderReads = {2}
        /\ \A i \in 2..Len(log) : log[i].ev \in {"read", "discard"}

\* two methods called one after the other, the second a sample() that
\* decoded a Data response
C15_Witness ==
    /\ op = "sample"
    /\ calls = 2
    /\ rsp.state = "DATA"
    /\ Events("write") = {1}
    /\ HeaderReads = {2}

\* the number of bytes the transport calls of the log have read
RECURSIVE BytesRead(_)
BytesRead(l) ==
    IF l = << >> THEN 0
    ELSE (IF Head(l).ev = "read" THEN Len(Head(l).bytes) ELSE 0)
         + BytesRead(Tail(l))

NoGap(buf) == \A i \in DOMAIN buf : buf[i] # TIMEOUT

\* autosample ended because the callback answered false
CleanStop ==
    /\ op = "autosample"
    /\ pc = "idle"
    /\ samples # << >>
    /\ ~samples[Len(samples)].answer

\* C16: on a clean stop the last three entries of the log are the callback
\* that asked to stop, the frame of command 0x20 written, and the input
\* discarded: no read lies between that callback and the return, 0x20 is
\* written once and before the discard, and no input is left behind
C16_CleanStopOrder ==
    CleanStop =>
        LET n == Len(log)
        IN  /\ n >= 3
            /\ log[n - 2].ev = "callback"
            /\ log[n - 1].ev = "write" /\ log[n - 1].bytes = DisableFrame
            /\ log[n].ev = "discard"
            /\ Cardinality(WritesOf(DisableFrame)) = 1
            /\ Cardinality(Events("discard")) = 1
            /\ inbuf = << >>
            /\ result.kind = "returned"

\* a clean stop while bytes that had arrived were still unread
C16_Witness ==
    /\ CleanStop
    /\ NoGap(seen)
    /\ BytesRead(log) < Len(seen)
    /\ inbuf = << >>
    /\ log[Len(log)].ev = "discard"

\* the sample a variant builds from a streaming payload of 26 bytes
StreamedSample(v, data) ==
    IF v = "HPMA115C0"
    THEN [cls |-> "SampleC0", PM1_0 |-> U16(data, 0), PM2_5 |-> U16(data, 1),
          PM4_0 |-> U16(data, 2), PM10 |-> U16(data, 3)]
    ELSE [cls |-> "SampleS0", PM1_0 |-> Unset, PM2_5 |-> U16(data, 1),
          PM4_0 |-> Unset, PM10 |-> U16(data, 2)]

Callbacks == Events("callback")

\* every callback in the log comes right after the read of a frame's
\* checksum; only the last callback may have answered false, and after it
\* nothing is read
CallbackOrder ==
    /\ Cardinality(Callbacks) = Len(samples)
    /\ \A j \in Callbacks :
           /\ j > 1
           /\ log[j - 1].ev = "read" /\ log[j - 1].line \in {115, 123}
    /\ \A k \in DOMAIN samples :
           ~samples[k].answer =>
               /\ k = Len(samples)
               /\ Len(log) - 2 \in Callbacks
               /\ log[Len(log) - 1].ev # "read"
               /\ log[Len(log)].ev # "read"

\* C17 (as the specification states it): in the loop the callback is called
\* once for each Data response decoded
C17_ConsumerForEveryData ==
    [][(pc = "loop" /\ rsp'.state = "DATA") =>
           Len(samples') = Len(samples) + 1]_vars

\* C17 (amended): in a turn of the loop the callback is called once, after
\* the frame is read, exactly when the response decoded is a Data response
\* of 26 bytes, with the sample of its 13 fields, the samples staying in
\* arrival order; the loop reads again only after an answer of true, and for
\* any other response or failure the callback is not called
C17_ConsumerOncePerStreamedSample ==
    [][pc = "loop" =>
         /\ CallbackOrder'
         /\ IF rsp'.state = "DATA" /\ Len(rsp'.data) = 26
            THEN /\ Len(samples') = Len(samples) + 1
                 /\ SubSeq(samples', 1, Len(samples)) = samples
                 /\ samples'[Len(samples')].sample = StreamedSample(variant, rsp'.data)
                 /\ Cardinality(Callbacks') = Cardinality(Callbacks) + 1
                 /\ samples'[Len(samples')].answer <=> pc' = "loop"
            ELSE /\ samples' = samples
                 /\ Callbacks' = Callbacks
                 /\ pc' = "idle"]_vars

\* two streaming frames delivered in order to the Standard variant's
\* callback, the second of them answered false
C17_Witness ==
    /\ op = "autosample"
    /\ variant = "HPMA115S0"
    /\ Len(samples) = 2
    /\ samples[1].sample.PM2_5 = 55 /\ samples[1].sample.PM10 = 77
    /\ samples[1].answer
    /\ samples[2].sample.PM2_5 = 8 /\ samples[2].sample.PM10 = 256
    /\ ~samples[2].answer
    /\ Cardinality(Callbacks) = 2

\* a header that none of _recv's four patterns takes, of two bytes or of
\* the one byte a timed-out read returned
Unrecognized(h) ==
    /\ Len(h) >= 1
    /\ h[1] # 64
    /\ Len(h) = 1 => h[1] \notin {66, 165, 150}
    /\ Len(h) = 2 => h \notin {<< 66, 77 >>, << 165, 165 >>, << 150, 150 >>}

\* the discards made inside _recv
DecodeDiscards == {i \in Events("discard") : log[i].line = 137}

\* C18: a method that ended in ChecksumFailure has discarded nothing and has
\* written nothing but its own command before the decode: its last transport
\* call is the read of the checksum, and the bytes behind the corrupted
\* frame are still in the input.  A decode discards the input exactly when
\* the header it read is not recognized, right after reading it.
C18_ChecksumFailureKeepsInput ==
    /\ result.kind = "ChecksumFailure" =>
           /\ Events("discard") = {}
           /\ Events("write") = {1}
           /\ log[Len(log)].ev = "read" /\ log[Len(log)].line \in {115, 123}
           /\ NoGap(seen) =>
                  inbuf = SubSeq(seen, BytesRead(log) + 1, Len(seen))
    /\ \A i \in HeaderReads :
           Unrecognized(log[i].bytes) <=> (i + 1) \in DecodeDiscards
    /\ \A j \in DecodeDiscards : (j - 1) \in HeaderReads

\* a corrupted command frame with a whole frame behind it, which stays
C18_Witness ==
    /\ result.kind = "ChecksumFailure"
    /\ op \in ExchangeOps
    /\ seen = BadChecksum(CoeffReply) \o CoeffReply
    /\ inbuf = CoeffReply
    /\ Events("discard") = {}

\* C19: the callers test only for NEGACK.  start_measurement,
\* stop_measurement and set_cust_adj_coeff (coefficient in range) return
\* normally when the response decoded is POSACK or Data; autosample goes
\* into its loop when its first response is POSACK or Data; sample and
\* read_cust_adj_coeff answered by POSACK, which has no payload, return no
\* value: they raise TypeError
C19_SuccessIsNotNegAck ==
    /\ (/\ op \in {"start_measurement", "stop_measurement", "set_cust_adj_coeff"}
        /\ rsp.state \in {"POSACK", "DATA"}) =>
           result = Returned(None, NoSample)
    /\ (/\ op = "autosample"
        /\ LoopHeaderReads = {}
        /\ rsp.state \in {"POSACK", "DATA"}) =>
           pc = "loop" /\ result.kind = "running"
    /\ (op \in {"sample", "read_cust_adj_coeff"} /\ rsp.state = "POSACK") =>
           result.kind = "TypeError"

\* autosample in its loop after a Data frame answered command 0x40
C19_Witness ==
    /\ op = "autosample"
    /\ pc = "loop"
    /\ LoopHeaderReads = {}
    /\ rsp.state = "DATA"
    /\ log[2].bytes[1] = 64

\* the length of the frame a header announces: an acknowledgement is its
\* header, a command-response frame has LL bytes and a checksum byte after
\* it, a streaming frame 28 bytes and two checksum bytes
FrameLen(h) ==
    IF h \in {<< 165, 165 >>, << 150, 150 >>} THEN 2
    ELSE IF h[1] = 64 THEN 2 + h[2] + 1
    ELSE 2 + 28 + 2

\* C20: a method whose one decode returned a response, on an input that
\* starts with a whole frame, has taken exactly that frame from the input
\* and left the bytes behind it for the next call; the response is of the
\* frame's kind, and a Data payload is what lies between the echo bytes
\* (one after a 0x40 header, two after 0x42 0x4D, leaving 26) and the
\* checksum
C20_OneFramePerDecode ==
    (/\ HeaderReads = {2}
     /\ rsp.state # "none"
     /\ samples = << >>
     /\ Len(seen) >= 2
     /\ Len(seen) >= FrameLen(SubSeq(seen, 1, 2))
     /\ NoGap(SubSeq(seen, 1, FrameLen(SubSeq(seen, 1, 2))))) =>
        LET h == SubSeq(seen, 1, 2)
            n == FrameLen(h)
        IN  /\ inbuf = SubSeq(seen, n + 1, Len(seen))
            /\ BytesRead(log) = n
            /\ h = << 165, 165 >> => rsp = [state |-> "POSACK", data |-> None]
            /\ h = << 150, 150 >> => rsp = [state |-> "NEGACK", data |-> None]
            /\ h[1] = 64 =>
                   rsp = [state |-> "DATA", data |-> SubSeq(seen, 4, n - 1)]
            /\ h = << 66, 77 >> =>
                   /\ rsp = [state |-> "DATA", data |-> SubSeq(seen, 5, 30)]
                   /\ Len(rsp.data) = 26

\* the second of two frames that arrived together, decoded by the second
\* call with a third frame behind it
C20_Witness ==
    /\ calls = 2
    /\ op \in ExchangeOps
    /\ seen = NegAck \o CoeffReply
    /\ rsp.state = "NEGACK"
    /\ inbuf = CoeffReply

=============================================================================
